---------------------------- MODULE Spec2Model ----------------------------
(***************************************************************************)
(* A model of tailwind-tint-color: the colour parser (src/src/parser.js),  *)
(* the filter colour model (src/src/color.js) and the facade               *)
(* getFilterForColor (src/src/index.js).                                   *)
(*                                                                         *)
(* JavaScript numbers are IEEE-754 binary64 values.  Several properties of *)
(* this program are decided by the rounding of a single multiplication     *)
(* (50 * 2.55 is 127.49999999999999, not 127.5), so numbers are modelled   *)
(* bit-exactly: a number is a record [k, s, m, e] standing for             *)
(* (-1)^s * m * 2^e, with k one of "num", "inf", "nan", and m an unbounded *)
(* natural kept as a little-endian sequence of 14-bit limbs (TLC's own     *)
(* integers are 32 bits wide).  Every arithmetic operator computes the     *)
(* exact result and rounds it to nearest, ties to even, to 53 bits, as the *)
(* hardware does.  The sign of zero is not kept: no operation of the       *)
(* program observes it.                                                    *)
(***************************************************************************)
EXTENDS Integers, Sequences, FiniteSets, TLC

----------------------------------------------------------------------------
(* Unbounded naturals: little-endian limbs, no high zero limb; 0 is <<>>.  *)
(* Operands are evaluated on entry (Strict), and intermediate results are  *)
(* handed on as operator arguments, because TLC evaluates by need and      *)
(* nests each operand's evaluation inside its first use.                   *)

LimbBase == 2 ^ 14
LimbBits == CHOOSE k \in 1..15 : 2 ^ k = LimbBase

Max2(a, b) == IF a >= b THEN a ELSE b
Min2(a, b) == IF a <= b THEN a ELSE b

\* TRUE, once every component of the tuple t has been evaluated, in order
Strict(t) == t = t

\* The function f on 1..n as a tuple of its values
Tuple(f, n) == SubSeq(f, 1, n)

Limb(a, i) == IF i >= 1 /\ i <= Len(a) THEN a[i] ELSE 0

BStrip(a) ==
  IF \A i \in 1..Len(a) : a[i] = 0 THEN <<>>
  ELSE SubSeq(a, 1, CHOOSE i \in 1..Len(a) :
                      a[i] # 0 /\ \A j \in (i + 1)..Len(a) : a[j] = 0)

\* 0 <= n < 2^31
BFromInt(n) ==
  BStrip(<<n % LimbBase, (n \div LimbBase) % LimbBase,
           n \div (LimbBase * LimbBase)>>)

BAdd(a, b) ==
  CASE Strict(<<a, b>>) ->
  LET n        == Max2(Len(a), Len(b)) + 1
      s(i)     == Limb(a, i) + Limb(b, i)
      carry(i) == IF \E j \in 1..(i - 1) :
                       s(j) >= LimbBase
                       /\ \A k \in (j + 1)..(i - 1) : s(k) = LimbBase - 1
                    THEN 1 ELSE 0
  IN  BStrip(Tuple([i \in 1..n |-> (s(i) + carry(i)) % LimbBase], n))

\* a - b for a >= b
BSub(a, b) ==
  CASE Strict(<<a, b>>) ->
  LET d(i)      == Limb(a, i) - Limb(b, i)
      borrow(i) == IF \E j \in 1..(i - 1) :
                        d(j) < 0 /\ \A k \in (j + 1)..(i - 1) : d(k) = 0
                     THEN 1 ELSE 0
  IN  BStrip(Tuple([i \in 1..Len(a) |->
                      (d(i) - borrow(i) + LimbBase) % LimbBase], Len(a)))

\* -1, 0, 1 as a < b, a = b, a > b
BCmp(a, b) ==
  CASE Strict(<<a, b>>) ->
  IF Len(a) < Len(b) THEN -1
  ELSE IF Len(a) > Len(b) THEN 1
  ELSE IF a = b THEN 0
  ELSE LET i == CHOOSE i \in 1..Len(a) :
                  a[i] # b[i] /\ \A j \in (i + 1)..Len(a) : a[j] = b[j]
       IN  IF a[i] < b[i] THEN -1 ELSE 1

\* a * n for 0 <= n <= 2^14
BMulSmall(a, n) ==
  CASE Strict(<<a, n>>) ->
  IF n = 0 \/ a = <<>> THEN <<>>
  ELSE BAdd(Tuple([i \in 1..Len(a) |-> (a[i] * n) % LimbBase], Len(a)),
            <<0>> \o Tuple([i \in 1..Len(a) |-> (a[i] * n) \div LimbBase],
                           Len(a)))

\* Column k of the long multiplication of a and b, of at most 4 limbs each:
\* at most four products below 2^28
Col(a, b, k) ==
  Limb(a, 1) * Limb(b, k) + Limb(a, 2) * Limb(b, k - 1)
    + Limb(a, 3) * Limb(b, k - 2) + Limb(a, 4) * Limb(b, k - 3)

\* The number whose columns are c[1..7], carries propagated
BCarry(c) ==
  LET t1 == c[1]
      t2 == c[2] + (t1 \div LimbBase)
      t3 == c[3] + (t2 \div LimbBase)
      t4 == c[4] + (t3 \div LimbBase)
      t5 == c[5] + (t4 \div LimbBase)
      t6 == c[6] + (t5 \div LimbBase)
      t7 == c[7] + (t6 \div LimbBase)
  IN  BStrip(<<t1 % LimbBase, t2 % LimbBase, t3 % LimbBase, t4 % LimbBase,
               t5 % LimbBase, t6 % LimbBase, t7 % LimbBase, t7 \div LimbBase>>)

\* a * b for a, b of at most 4 limbs (56 bits)
BMul(a, b) ==
  CASE Strict(<<a, b>>) -> BCarry(Tuple([k \in 1..7 |-> Col(a, b, k)], 7))

\* Long division by 0 < n <= 2^16 from limb i down: r is the remainder of
\* the limbs above i, q their quotient
RECURSIVE BDivFrom(_, _, _, _, _)
BDivFrom(a, n, i, r, q) ==
  CASE Strict(<<r, q>>) ->
  IF i = 0 THEN [q |-> BStrip(q), r |-> r]
  ELSE BDivFrom(a, n, i - 1, (r * LimbBase + a[i]) % n,
                <<(r * LimbBase + a[i]) \div n>> \o q)

\* [q, r]: a = q * n + r, 0 <= r < n, for 0 < n <= 2^16
BDivSmall(a, n) == CASE Strict(<<a, n>>) -> BDivFrom(a, n, Len(a), 0, <<>>)

\* a mod n for 0 < n <= 2^16
BModSmall(a, n) == BDivSmall(a, n).r

\* 0 <= n < 2^14
IntBitLen(n) ==
  CHOOSE k \in 0..LimbBits : n < 2 ^ k /\ (k = 0 \/ n >= 2 ^ (k - 1))

BitLen(a) ==
  IF a = <<>> THEN 0 ELSE (Len(a) - 1) * LimbBits + IntBitLen(a[Len(a)])

\* a * 2^k
BShl(a, k) ==
  CASE Strict(<<a, k>>) ->
  IF a = <<>> THEN a
  ELSE BStrip(Tuple([i \in 1..(Len(a) + (k \div LimbBits) + 1) |->
                       ((Limb(a, i - (k \div LimbBits)) * 2 ^ (k % LimbBits))
                          % LimbBase)
                       + (Limb(a, i - (k \div LimbBits) - 1)
                            \div 2 ^ (LimbBits - (k % LimbBits)))],
                    Len(a) + (k \div LimbBits) + 1))

\* floor(a / 2^k)
BShr(a, k) ==
  CASE Strict(<<a, k>>) ->
  IF k \div LimbBits >= Len(a) THEN <<>>
  ELSE BStrip(Tuple([i \in 1..(Len(a) - (k \div LimbBits)) |->
                       (Limb(a, i + (k \div LimbBits)) \div 2 ^ (k % LimbBits))
                       + (Limb(a, i + (k \div LimbBits) + 1)
                            % 2 ^ (k % LimbBits))
                         * 2 ^ (LimbBits - (k % LimbBits))],
                    Len(a) - (k \div LimbBits)))

\* a mod 2^k
BLow(a, k) == BSub(a, BShl(BShr(a, k), k))

\* Bit i (from 0) of a
Bit(a, i) == (Limb(a, (i \div LimbBits) + 1) \div 2 ^ (i % LimbBits)) % 2

BIsOdd(a) == a # <<>> /\ a[1] % 2 = 1

\* the number of low zero bits of a # 0
BTrailingZeros(a) ==
  LET i == CHOOSE i \in 1..Len(a) : a[i] # 0 /\ \A j \in 1..(i - 1) : a[j] = 0
  IN  (i - 1) * LimbBits
      + (CHOOSE k \in 0..(LimbBits - 1) :
           a[i] % 2 ^ k = 0 /\ a[i] % 2 ^ (k + 1) # 0)

----------------------------------------------------------------------------
(* IEEE-754 binary64.                                                      *)

MantBits == 52 + 1
MinExp   == 0 - 1074
MaxTop   == 2 ^ 10

NaN    == [k |-> "nan", s |-> 0, m |-> <<>>, e |-> 0]
Inf(s) == [k |-> "inf", s |-> s, m |-> <<>>, e |-> 0]
Zero   == [k |-> "num", s |-> 0, m |-> <<>>, e |-> 0]

IsNaN(x)    == x.k = "nan"
IsFinite(x) == x.k = "num"
IsZero(x)   == x.k = "num" /\ x.m = <<>>

\* The one record that stands for the exactly representable (-1)^s * m * 2^e
\* (m # 0, at most 53 bits): an integer below 2^53 has e = 0, a fraction has
\* an odd m, a larger number has a 53-bit m.
CanonShift(s, m, e, sh) ==
  [k |-> "num", s |-> s, m |-> BShl(m, sh), e |-> e - sh]

CanonOdd(s, m, e) ==
  CASE Strict(<<m, e>>) ->
  IF e <= 0 THEN [k |-> "num", s |-> s, m |-> m, e |-> e]
  ELSE CanonShift(s, m, e, IF BitLen(m) + e <= MantBits
                             THEN e ELSE MantBits - BitLen(m))

Canon(s, m, e) ==
  CanonOdd(s, BShr(m, BTrailingZeros(m)), e + BTrailingZeros(m))

\* (-1)^s * m * 2^e for m of at most 53 bits: zero, an infinity when it is
\* beyond the largest double, else the record of the number
Finish(s, m, e) ==
  CASE Strict(<<m, e>>) ->
  IF m = <<>> THEN Zero
  ELSE IF BitLen(m) + e > MaxTop THEN Inf(s)
  ELSE Canon(s, m, e)

\* -1, 0, 1 as the low drop bits of m # 0 are below, at, above half of 2^drop
HalfCmp(m, drop) ==
  IF drop = 0 THEN -1
  ELSE IF Bit(m, drop - 1) = 0 THEN -1
  ELSE IF BTrailingZeros(m) < drop - 1 THEN 1 ELSE 0

RoundUp(s, q, e, c, sticky) ==
  CASE Strict(<<q, c>>) ->
  Finish(s, IF c > 0 \/ (c = 0 /\ (sticky \/ BIsOdd(q)))
              THEN BAdd(q, <<1>>) ELSE q, e)

RoundAt(s, m, e, sticky, drop) ==
  CASE Strict(<<drop>>) ->
  RoundUp(s, BShr(m, drop), e + drop, HalfCmp(m, drop), sticky)

\* (-1)^s * (m + f) * 2^e rounded to nearest, ties to even, where 0 <= f < 1
\* and f > 0 exactly when sticky.  With sticky, m has at least 55 bits.
Round(s, m, e, sticky) ==
  CASE Strict(<<m, e, sticky>>) ->
  IF m = <<>> THEN Zero
  ELSE RoundAt(s, m, e, sticky,
               Max2(Max2(BitLen(m) - MantBits, MinExp - e), 0))

\* -2^31 < n < 2^31
FromInt(n) ==
  Finish(IF n < 0 THEN 1 ELSE 0, BFromInt(IF n < 0 THEN 0 - n ELSE n), 0)

Neg(x) == IF x.k = "nan" \/ IsZero(x) THEN x ELSE [x EXCEPT !.s = 1 - x.s]

Top(x) == BitLen(x.m) + x.e

FMul(x, y) ==
  CASE Strict(<<x, y>>) ->
  IF IsNaN(x) \/ IsNaN(y) THEN NaN
  ELSE IF x.k = "inf" \/ y.k = "inf"
         THEN IF IsZero(x) \/ IsZero(y) THEN NaN ELSE Inf((x.s + y.s) % 2)
  ELSE Round((x.s + y.s) % 2, BMul(x.m, y.m), x.e + y.e, FALSE)

FarApart == MantBits + 11

\* (-1)^sx * a * 2^e + (-1)^sy * b * 2^e, where c compares a with b when
\* the signs differ
FAddSigned(sx, sy, a, b, e, c) ==
  CASE Strict(<<a, b, c>>) ->
  IF c = 0 THEN Zero
  ELSE Round(IF c > 0 THEN sx ELSE sy,
             IF sx = sy THEN BAdd(a, b)
             ELSE IF c > 0 THEN BSub(a, b) ELSE BSub(b, a),
             e, FALSE)

FAddAligned(sx, sy, a, b, e) ==
  CASE Strict(<<a, b>>) ->
  FAddSigned(sx, sy, a, b, e, IF sx = sy THEN 1 ELSE BCmp(a, b))

FAdd(x, y) ==
  CASE Strict(<<x, y>>) ->
  IF IsNaN(x) \/ IsNaN(y) THEN NaN
  ELSE IF x.k = "inf"
         THEN IF y.k = "inf" /\ y.s # x.s THEN NaN ELSE x
  ELSE IF y.k = "inf" THEN y
  ELSE IF IsZero(x) THEN y
  ELSE IF IsZero(y) THEN x
  ELSE IF Top(x) - Top(y) > FarApart THEN x
  ELSE IF Top(y) - Top(x) > FarApart THEN y
  ELSE FAddAligned(x.s, y.s, BShl(x.m, x.e - Min2(x.e, y.e)),
                   BShl(y.m, y.e - Min2(x.e, y.e)), Min2(x.e, y.e))

FSub(x, y) == FAdd(x, Neg(y))

GuardBits == LimbBits + 4

FDivRound(s, d, e) == CASE Strict(<<d>>) -> Round(s, d.q, e, d.r # 0)

\* x / n for an integer divisor 0 < n <= 2^16 (every division of the code
\* that is modelled divides by such a constant)
FDivInt(x, n) ==
  CASE Strict(<<x, n>>) ->
  IF x.k # "num" \/ IsZero(x) THEN x
  ELSE FDivRound(x.s,
                 BDivSmall(BShl(x.m, MantBits - BitLen(x.m) + GuardBits), n),
                 x.e - (MantBits - BitLen(x.m) + GuardBits))

\* -1, 0, 1 as |x| is below, at, above |y|, for finite non-zero x, y
MagCmp(x, y) ==
  IF Top(x) # Top(y) THEN (IF Top(x) > Top(y) THEN 1 ELSE -1)
  ELSE BCmp(BShl(x.m, x.e - Min2(x.e, y.e)), BShl(y.m, y.e - Min2(x.e, y.e)))

\* -1, 0, 1 for finite x, y
FCmp(x, y) ==
  CASE Strict(<<x, y>>) ->
  IF IsZero(x) /\ IsZero(y) THEN 0
  ELSE IF IsZero(x) THEN (IF y.s = 0 THEN -1 ELSE 1)
  ELSE IF IsZero(y) THEN (IF x.s = 0 THEN 1 ELSE -1)
  ELSE IF x.s # y.s THEN (IF x.s = 0 THEN 1 ELSE -1)
  ELSE (IF x.s = 0 THEN 1 ELSE -1) * MagCmp(x, y)

\* x < y, x <= y, x > y as JavaScript compares: false when either is NaN
FLt(x, y) ==
  CASE Strict(<<x, y>>) ->
  IF IsNaN(x) \/ IsNaN(y) THEN FALSE
  ELSE IF x.k = "inf" THEN x.s = 1 /\ ~(y.k = "inf" /\ y.s = 1)
  ELSE IF y.k = "inf" THEN y.s = 0
  ELSE FCmp(x, y) < 0

FLe(x, y) == ~IsNaN(x) /\ ~IsNaN(y) /\ ~FLt(y, x)
FGt(x, y) == FLt(y, x)

\* Math.min, Math.max: NaN when any argument is NaN
MathMin(x, y) ==
  CASE Strict(<<x, y>>) ->
  IF IsNaN(x) \/ IsNaN(y) THEN NaN ELSE IF FLt(y, x) THEN y ELSE x

MathMax(x, y) ==
  CASE Strict(<<x, y>>) ->
  IF IsNaN(x) \/ IsNaN(y) THEN NaN ELSE IF FLt(x, y) THEN y ELSE x

\* Math.round: the nearest integer, a half rounded towards +Infinity
MathRound(x) ==
  CASE Strict(<<x>>) ->
  IF x.k # "num" \/ x.e >= 0 THEN x
  ELSE Finish(x.s,
              IF Bit(x.m, 0 - x.e - 1) = 1
                 /\ (x.s = 0 \/ BTrailingZeros(x.m) < 0 - x.e - 1)
                THEN BAdd(BShr(x.m, 0 - x.e), <<1>>)
                ELSE BShr(x.m, 0 - x.e),
              0)

\* 2^e mod n for 0 < n <= 2^15
RECURSIVE Pow2Mod(_, _)
Pow2Mod(e, n) ==
  IF e = 0 THEN 1 % n
  ELSE LET h == Pow2Mod(e \div 2, n)
       IN  IF e % 2 = 0 THEN (h * h) % n ELSE (2 * ((h * h) % n)) % n

\* x % n for finite x and an integer 0 < n <= 2^15: exact, sign of x
FModInt(x, n) ==
  CASE Strict(<<x, n>>) ->
  IF x.k # "num" THEN NaN
  ELSE Finish(x.s,
              IF x.e >= 0
                THEN BFromInt((BModSmall(x.m, n) * Pow2Mod(x.e, n)) % n)
                ELSE BAdd(BShl(BFromInt(BModSmall(BShr(x.m, 0 - x.e), n)),
                               0 - x.e),
                          BLow(x.m, 0 - x.e)),
              Min2(x.e, 0))

\* The number a decimal literal or token denotes, digits / 10^scale, rounded
\* once: digits / 10^scale = (digits / 5^scale) / 2^scale.  digits is a
\* natural of at most 56 bits as limbs, 0 <= scale <= 12.
Pow5(k) == IF k = 0 THEN 1 ELSE 5 ^ k

FromDecimalRound(s, d1, d2, e) ==
  CASE Strict(<<d1, d2>>) -> Round(s, d2.q, e, d1.r # 0 \/ d2.r # 0)

FromDecimalDiv(s, d1, scale, e) ==
  CASE Strict(<<d1>>) ->
  FromDecimalRound(s, d1, BDivSmall(d1.q, Pow5(Max2(scale - 6, 0))), e)

FromDecimal(s, digits, scale) ==
  CASE Strict(<<digits, scale>>) ->
  IF digits = <<>> THEN Zero
  ELSE FromDecimalDiv(s,
         BDivSmall(BShl(digits, 6 * LimbBits - BitLen(digits)),
                   Pow5(Min2(scale, 6))),
         scale, 0 - (6 * LimbBits - BitLen(digits)) - scale)

\* n / 10^scale for a small natural n: the literal 2.55 is Dec(255, 2)
Dec(n, scale) == FromDecimal(0, BFromInt(n), scale)

\* (hi * 10^6 + lo) / 10^scale: the literal 4.0767416621 is DecLong(40767, 416621, 10)
DecLong(hi, lo, scale) ==
  FromDecimal(0, BAdd(BMulSmall(BMulSmall(BFromInt(hi), 1000), 1000), BFromInt(lo)),
              scale)

\* The integer a number stands for, when it is one of 0..2^14-1 (else -1)
SmallInt(x) ==
  IF x.k = "num" /\ x.s = 0 /\ x.e = 0 /\ Len(x.m) <= 1
    THEN (IF x.m = <<>> THEN 0 ELSE x.m[1])
    ELSE 0 - 1

\* ---------------------------------------------------------------------------
\* Number literals of the source, each the double nearest to the decimal
\* ---------------------------------------------------------------------------
One    == FromInt(1)
Two    == FromInt(2)
N128   == FromInt(128)
N255   == FromInt(255)
N100   == FromInt(100)
N180   == FromInt(180)
N360   == FromInt(360)
Half   == Dec(5, 1)
\* 2^1023, a finite double near the top of the range
Huge   == [k |-> "num", s |-> 0, m |-> <<0, 0, 0, 1024>>, e |-> 971]

\* Math.PI and the values Math.sin and Math.cos return at the angles used
MathPI == [k |-> "num", s |-> 0, m |-> <<1443, 10786, 1014, 201>>, e |-> 0 - 48]
HalfPI == [k |-> "num", s |-> 0, m |-> <<1443, 10786, 1014, 201>>, e |-> 0 - 49]
TinyPI == [k |-> "num", s |-> 0, m |-> <<7175, 3153, 8803, 1129>>, e |-> 0 - 105]
TinyHalfPI == [k |-> "num", s |-> 0, m |-> <<7175, 3153, 8803, 1129>>, e |-> 0 - 106]

MathSin(x) ==
  CASE IsNaN(x)   -> NaN
    [] x = Zero   -> Zero
    [] x = HalfPI -> One
    [] x = MathPI -> TinyPI

MathCos(x) ==
  CASE IsNaN(x)   -> NaN
    [] x = Zero   -> One
    [] x = HalfPI -> TinyHalfPI
    [] x = MathPI -> Neg(One)

\* ---------------------------------------------------------------------------
\* color.js: class Color.  A method is modelled by the fields it leaves in the
\* receiver (this) and the value the call returns (ret).
\* ---------------------------------------------------------------------------
Undefined == "undefined"
NotCalled == "not called"

clamp(v) == MathMax(Zero, MathMin(N255, v))

set(r, g, b) ==
  [this |-> [r |-> clamp(r), g |-> clamp(g), b |-> clamp(b)],
   ret  |-> Undefined]

Color(r, g, b) == set(r, g, b).this

Row(r, g, b, m1, m2, m3) ==
  clamp(FAdd(FAdd(FMul(r, m1), FMul(g, m2)), FMul(b, m3)))

multiply(this, m) ==
  CASE Strict(m) ->
    [this |-> [r |-> Row(this.r, this.g, this.b, m[1], m[2], m[3]),
               g |-> Row(this.r, this.g, this.b, m[4], m[5], m[6]),
               b |-> Row(this.r, this.g, this.b, m[7], m[8], m[9])],
     ret  |-> Undefined]

\* invert with the weight 1 - value in place of 1 - 2 * value
InvertChannel_weight(c, value) ==
  MathMax(Zero, MathMin(N255,
    FMul(FAdd(value, FMul(FDivInt(c, 255), FSub(One, value))), N255)))

InvertChannel(c, value) ==
  clamp(FMul(FAdd(value, FMul(FDivInt(c, 255),
                              FSub(One, FMul(Two, value)))), N255))

invert(this, value) ==
  [this |-> [r |-> InvertChannel(this.r, value),
             g |-> InvertChannel(this.g, value),
             b |-> InvertChannel(this.b, value)],
   ret  |-> Undefined]

SepiaMatrix(value) ==
  LET w == FSub(One, value) IN
  CASE Strict(w) ->
    << FAdd(Dec(393, 3), FMul(Dec(607, 3), w)), FSub(Dec(769, 3), FMul(Dec(769, 3), w)),
       FSub(Dec(189, 3), FMul(Dec(189, 3), w)),
       FSub(Dec(349, 3), FMul(Dec(349, 3), w)), FAdd(Dec(686, 3), FMul(Dec(314, 3), w)),
       FSub(Dec(168, 3), FMul(Dec(168, 3), w)),
       FSub(Dec(272, 3), FMul(Dec(272, 3), w)), FSub(Dec(534, 3), FMul(Dec(534, 3), w)),
       FAdd(Dec(131, 3), FMul(Dec(869, 3), w)) >>

sepia(this, value) ==
  [this |-> multiply(this, SepiaMatrix(value)).this, ret |-> Undefined]

SaturateMatrix(value) ==
  << FAdd(Dec(213, 3), FMul(Dec(787, 3), value)), FSub(Dec(715, 3), FMul(Dec(715, 3), value)),
     FSub(Dec(72, 3), FMul(Dec(72, 3), value)),
     FSub(Dec(213, 3), FMul(Dec(213, 3), value)), FAdd(Dec(715, 3), FMul(Dec(285, 3), value)),
     FSub(Dec(72, 3), FMul(Dec(72, 3), value)),
     FSub(Dec(213, 3), FMul(Dec(213, 3), value)), FSub(Dec(715, 3), FMul(Dec(715, 3), value)),
     FAdd(Dec(72, 3), FMul(Dec(928, 3), value)) >>

saturate(this, value) ==
  [this |-> multiply(this, SaturateMatrix(value)).this, ret |-> Undefined]

HueRotateMatrix(angle) ==
  LET rad == FMul(FDivInt(angle, 180), MathPI)
      sin == MathSin(rad)
      cos == MathCos(rad)
  IN
  CASE Strict(<<sin, cos>>) ->
    << FSub(FAdd(Dec(213, 3), FMul(cos, Dec(787, 3))), FMul(sin, Dec(213, 3))),
       FSub(FSub(Dec(715, 3), FMul(cos, Dec(715, 3))), FMul(sin, Dec(715, 3))),
       FAdd(FSub(Dec(72, 3), FMul(cos, Dec(72, 3))), FMul(sin, Dec(928, 3))),
       FAdd(FSub(Dec(213, 3), FMul(cos, Dec(213, 3))), FMul(sin, Dec(143, 3))),
       FAdd(FAdd(Dec(715, 3), FMul(cos, Dec(285, 3))), FMul(sin, Dec(14, 2))),
       FSub(FSub(Dec(72, 3), FMul(cos, Dec(72, 3))), FMul(sin, Dec(283, 3))),
       FSub(FSub(Dec(213, 3), FMul(cos, Dec(213, 3))), FMul(sin, Dec(787, 3))),
       FAdd(FSub(Dec(715, 3), FMul(cos, Dec(715, 3))), FMul(sin, Dec(715, 3))),
       FAdd(FAdd(Dec(72, 3), FMul(cos, Dec(928, 3))), FMul(sin, Dec(72, 3))) >>

hueRotate(this, angle) ==
  [this |-> multiply(this, HueRotateMatrix(angle)).this, ret |-> Undefined]

This == "this"

\* brightness as a chaining method would be written: same fields, returns this
brightness_chained(this, value) ==
  [this |-> [r |-> MathMax(Zero, MathMin(N255, FMul(this.r, value))),
             g |-> MathMax(Zero, MathMin(N255, FMul(this.g, value))),
             b |-> MathMax(Zero, MathMin(N255, FMul(this.b, value)))],
   ret  |-> This]

brightness(this, value) ==
  [this |-> [r |-> clamp(FMul(this.r, value)),
             g |-> clamp(FMul(this.g, value)),
             b |-> clamp(FMul(this.b, value))],
   ret  |-> Undefined]

ContrastChannel(c, value) == clamp(FAdd(FMul(FSub(c, N128), value), N128))

contrast(this, value) ==
  [this |-> [r |-> ContrastChannel(this.r, value),
             g |-> ContrastChannel(this.g, value),
             b |-> ContrastChannel(this.b, value)],
   ret  |-> Undefined]

\* ---------------------------------------------------------------------------
\* Strings are sequences of one-character strings.  The String methods and
\* number conversions the parser uses.
\* ---------------------------------------------------------------------------
\* null (the invalid sentinel of the parser) and a failed regular-expression match
Null    == [null |-> TRUE]
NoMatch == <<>>

Spaces    == {" ", "\t", "\n"}
Digits    == {"0", "1", "2", "3", "4", "5", "6", "7", "8", "9"}
HexChars  == <<"0", "1", "2", "3", "4", "5", "6", "7", "8", "9",
               "a", "b", "c", "d", "e", "f">>
Uppers    == <<"A", "B", "C", "D", "E", "F", "G", "H", "I", "J", "K", "L", "M",
               "N", "O", "P", "Q", "R", "S", "T", "U", "V", "W", "X", "Y", "Z">>
Lowers    == <<"a", "b", "c", "d", "e", "f", "g", "h", "i", "j", "k", "l", "m",
               "n", "o", "p", "q", "r", "s", "t", "u", "v", "w", "x", "y", "z">>

Lower(c) ==
  IF \E i \in 1..26 : Uppers[i] = c
    THEN Lowers[CHOOSE i \in 1..26 : Uppers[i] = c] ELSE c

toLowerCase(s) == Tuple([i \in 1..Len(s) |-> Lower(s[i])], Len(s))

\* The character at position i, "" beyond the ends
Char(s, i) == IF i >= 1 /\ i <= Len(s) THEN s[i] ELSE ""

\* End of the longest run of characters of (outside) a class that starts at i
RunIn(s, i, cls) ==
  CHOOSE j \in i..(Len(s) + 1) :
    /\ \A k \in i..(j - 1) : s[k] \in cls
    /\ j = Len(s) + 1 \/ s[j] \notin cls

RunNotIn(s, i, cls) ==
  CHOOSE j \in i..(Len(s) + 1) :
    /\ \A k \in i..(j - 1) : s[k] \notin cls
    /\ j = Len(s) + 1 \/ s[j] \in cls

trim(s) ==
  LET a == RunIn(s, 1, Spaces)
      b == CHOOSE j \in (a - 1)..Len(s) :
             /\ \A k \in (j + 1)..Len(s) : s[k] \in Spaces
             /\ j = a - 1 \/ s[j] \notin Spaces
  IN SubSeq(s, a, b)

startsWith(s, p) == Len(s) >= Len(p) /\ SubSeq(s, 1, Len(p)) = p
endsWith(s, p) ==
  Len(s) >= Len(p) /\ SubSeq(s, Len(s) - Len(p) + 1, Len(s)) = p

\* Case-insensitive occurrence of the lower-case text p at position i
MatchesAt(s, i, p) ==
  /\ i + Len(p) - 1 <= Len(s)
  /\ \A k \in 1..Len(p) : Lower(s[i + k - 1]) = p[k]

HexDigitValue(c) == (CHOOSE i \in 1..16 : HexChars[i] = Lower(c)) - 1

\* Value of a string of at most 9 digits in a radix
RECURSIVE DigitsValue(_, _)
DigitsValue(d, radix) ==
  IF d = <<>> THEN 0
  ELSE DigitsValue(SubSeq(d, 1, Len(d) - 1), radix) * radix
         + HexDigitValue(d[Len(d)])

HexDigitSet == {c \in Digits \cup {Uppers[i] : i \in 1..6}
                     \cup {Lowers[i] : i \in 1..6} : TRUE}

\* parseInt(t, 16): leading white space, a sign, a 0x prefix, then the longest
\* run of hex digits; NaN when that run is empty
parseInt16(t) ==
  LET a == RunIn(t, 1, Spaces)
      b == IF Char(t, a) \in {"+", "-"} THEN a + 1 ELSE a
      c == IF Char(t, b) = "0" /\ Char(t, b + 1) \in {"x", "X"}
             THEN b + 2 ELSE b
      e == RunIn(t, c, HexDigitSet)
      v == DigitsValue(SubSeq(t, c, e - 1), 16)
  IN IF e = c THEN NaN
     ELSE IF Char(t, a) = "-" THEN FromInt(0 - v) ELSE FromInt(v)

\* Number(d) and parseInt(d, 10) of a string d made of digits only
DigitsNumber(d) == FromInt(DigitsValue(d, 10))

\* The value of the digits dg scaled by 10^-scale, NaN when there is no digit
FloatValue(sg, dg, scale) ==
  IF dg = <<>> THEN NaN
  ELSE CASE scale \in (0 - 4)..12 ->
         FromDecimal(sg, BMulSmall(BFromInt(DigitsValue(dg, 10)),
                                   10 ^ Max2(0 - scale, 0)),
                     Max2(scale, 0))

\* The exponent part that starts at fe ("e", a sign, digits from es up to ee),
\* 0 when there is none
FloatExponent(t, fe, es, ee) ==
  IF ~(Char(t, fe) \in {"e", "E"} /\ ee > es /\ es <= Len(t)) THEN 0
  ELSE IF Char(t, fe + 1) = "-"
    THEN 0 - DigitsValue(SubSeq(t, es, ee - 1), 10)
    ELSE DigitsValue(SubSeq(t, es, ee - 1), 10)

FloatExpDigits(t, fe, es) == FloatExponent(t, fe, es, RunIn(t, es, Digits))

FloatExp(t, fe) ==
  FloatExpDigits(t, fe, IF Char(t, fe + 1) \in {"+", "-"} THEN fe + 2 ELSE fe + 1)

\* int is the integer part, the fraction digits run from fs up to fe
FloatFrac(t, sg, int, fs, fe) ==
  FloatValue(sg, int \o SubSeq(t, fs, fe - 1), (fe - fs) - FloatExp(t, fe))

FloatPoint(t, sg, int, fs) == FloatFrac(t, sg, int, fs, RunIn(t, fs, Digits))

\* the integer digits run from b up to ie
FloatInt(t, sg, b, ie) ==
  FloatPoint(t, sg, SubSeq(t, b, ie - 1), IF Char(t, ie) = "." THEN ie + 1 ELSE ie)

FloatDigits(t, sg, b) == FloatInt(t, sg, b, RunIn(t, b, Digits))

\* a is the position after the leading white space
FloatSign(t, a) ==
  FloatDigits(t, IF Char(t, a) = "-" THEN 1 ELSE 0,
              IF Char(t, a) \in {"+", "-"} THEN a + 1 ELSE a)

\* parseFloat(t): leading white space, a sign, digits with an optional
\* fraction, an optional exponent; the rest of the text is ignored; NaN when
\* there is no digit.  (The literal Infinity is not part of the alphabet.)
parseFloat(t) == FloatSign(t, RunIn(t, 1, Spaces))

\* ---------------------------------------------------------------------------
\* parser.js
\* ---------------------------------------------------------------------------
Rgb(r, g, b) == [r |-> r, g |-> g, b |-> b]

\* lines 19-23: the three channels, null when one of them is NaN
HexChannels(r, g, b) ==
  IF IsNaN(r) \/ IsNaN(g) \/ IsNaN(b) THEN Null ELSE Rgb(r, g, b)

\* lines 18-21, s being the text after the shorthand expansion
HexDigits(s) ==
  IF Len(s) # 6 THEN Null
  ELSE HexChannels(parseInt16(SubSeq(s, 1, 2)), parseInt16(SubSeq(s, 3, 4)),
                   parseInt16(SubSeq(s, 5, 6)))

\* lines 13-17: #RGB is doubled digit by digit
HexExpand(s) ==
  IF Len(s) = 3 THEN <<s[1], s[1], s[2], s[2], s[3], s[3]>> ELSE s

\* lines 11-12, s being the trimmed text
HexBody(s) ==
  IF ~startsWith(s, <<"#">>) THEN Null
  ELSE HexDigits(HexExpand(SubSeq(s, 2, Len(s))))

parseHexColor(hex) == HexBody(trim(hex))

\* The match of  name a? \( (\d+) \s*,\s* (\d+) pct \s*,\s* (\d+) pct  at
\* position i, where pct is "%" or nothing: the three captures, or NoMatch.
\* Greedy runs never have to give characters back, because what must follow
\* a run is outside its class.
TripleAt(s, i, name, pct) ==
  LET p1 == i + Len(name)
      p2 == IF Lower(Char(s, p1)) = "a" THEN p1 + 1 ELSE p1
      a1 == p2 + 1
      a2 == RunIn(s, a1, Digits)
      c1 == RunIn(s, a2, Spaces)
      b1 == RunIn(s, c1 + 1, Spaces)
      b2 == RunIn(s, b1, Digits)
      b3 == b2 + Len(pct)
      c2 == RunIn(s, b3, Spaces)
      d1 == RunIn(s, c2 + 1, Spaces)
      d2 == RunIn(s, d1, Digits)
  IN IF /\ MatchesAt(s, i, name)
        /\ Char(s, p2) = "("
        /\ a2 > a1
        /\ Char(s, c1) = ","
        /\ b2 > b1
        /\ SubSeq(s, b2, b3 - 1) = pct
        /\ Char(s, c2) = ","
        /\ d2 > d1
        /\ SubSeq(s, d2, d2 + Len(pct) - 1) = pct
     THEN <<SubSeq(s, a1, a2 - 1), SubSeq(s, b1, b2 - 1), SubSeq(s, d1, d2 - 1)>>
     ELSE NoMatch

\* String.prototype.match with an unanchored pattern: the leftmost match
Leftmost(ms) ==
  IF \A i \in 1..Len(ms) : ms[i] = NoMatch THEN NoMatch
  ELSE ms[CHOOSE i \in 1..Len(ms) :
            ms[i] # NoMatch /\ \A j \in 1..(i - 1) : ms[j] = NoMatch]

TripleMatch(s, name, pct) ==
  Leftmost(Tuple([i \in 1..Len(s) |-> TripleAt(s, i, name, pct)], Len(s)))

\* lines 36-37
RgbOfMatch(m) ==
  IF m = NoMatch THEN Null
  ELSE Rgb(DigitsNumber(m[1]), DigitsNumber(m[2]), DigitsNumber(m[3]))

parseRgbColor(rgb) == RgbOfMatch(TripleMatch(trim(rgb), <<"r", "g", "b">>, <<>>))


\* line 57, given k and a
HslMix(light, a, k) ==
  FSub(light,
       FMul(a, MathMax(Neg(One),
                       MathMin(MathMin(FSub(k, FromInt(3)), FSub(FromInt(9), k)),
                               One))))

\* lines 54-58: the function f
HslF(n, hue, sat, light) ==
  HslMix(light,
         FDivInt(FMul(sat, MathMin(light, FSub(N100, light))), 100),
         FModInt(FAdd(FromInt(n), FDivInt(hue, 30)), 12))

\* lines 60-64
HslChannels(hue, sat, light) ==
  CASE Strict(<<hue, sat, light>>) ->
    Rgb(MathRound(FMul(HslF(0, hue, sat, light), Dec(255, 2))),
        MathRound(FMul(HslF(8, hue, sat, light), Dec(255, 2))),
        MathRound(FMul(HslF(4, hue, sat, light), Dec(255, 2))))

hslToRgb(h, s, l) == HslChannels(FMul(h, N360), FMul(s, N100), FMul(l, N100))

\* lines 77-81
HslOfMatch(m) ==
  IF m = NoMatch THEN Null
  ELSE hslToRgb(FDivInt(DigitsNumber(m[1]), 360),
                FDivInt(DigitsNumber(m[2]), 100),
                FDivInt(DigitsNumber(m[3]), 100))

parseHslColor(hsl) == HslOfMatch(TripleMatch(trim(hsl), <<"h", "s", "l">>, <<"%">>))

clamp01(x) == IF FLt(x, Zero) THEN Zero ELSE IF FGt(x, One) THEN One ELSE x

\* Math.pow(x, 1 / 2.4) is an implementation-approximated function.  For the
\* x > 0.0031308 it is called with its value lies between x and 1; the model
\* lets the call return either end of that bracket (bound is "low" or "high").
PowBounds == {"low", "high"}
MathPow(x, bound) ==
  CASE ~IsFinite(x)   -> x
    [] bound = "low"  -> MathMin(x, One)
    [] bound = "high" -> MathMax(x, One)

srgbCompand(x, bound) ==
  IF FLe(x, Dec(31308, 7)) THEN FMul(Dec(1292, 2), x)
  ELSE FSub(FMul(Dec(1055, 3), MathPow(x, bound)), Dec(55, 3))

linearToSrgb(r, g, b, bound) ==
  Rgb(MathRound(FMul(clamp01(srgbCompand(r, bound)), N255)),
      MathRound(FMul(clamp01(srgbCompand(g, bound)), N255)),
      MathRound(FMul(clamp01(srgbCompand(b, bound)), N255)))

Cube(x) == FMul(FMul(x, x), x)

\* lines 151-155
LmsToLinearRgb(l, m, s) ==
  CASE Strict(<<l, m, s>>) ->
    Rgb(FAdd(FSub(FMul(DecLong(40767, 416621, 10), l),
                  FMul(DecLong(33077, 115913, 10), m)),
             FMul(DecLong(2309, 699292, 10), s)),
        FSub(FAdd(FMul(Neg(DecLong(12684, 380046, 10)), l),
                  FMul(DecLong(26097, 574011, 10), m)),
             FMul(DecLong(3413, 193965, 10), s)),
        FAdd(FSub(FMul(Neg(DecLong(41, 960863, 10)), l),
                  FMul(DecLong(7034, 186147, 10), m)),
             FMul(DecLong(1707, 614701, 9), s)))

\* lines 143-149
oklabToLinearRgb(L, a, b) ==
  CASE Strict(<<L, a, b>>) ->
    LmsToLinearRgb(
      Cube(FAdd(FAdd(L, FMul(DecLong(3963, 377774, 10), a)),
                FMul(DecLong(2158, 37573, 10), b))),
      Cube(FSub(FSub(L, FMul(DecLong(1055, 613458, 10), a)),
                FMul(DecLong(638, 541728, 10), b))),
      Cube(FSub(FSub(L, FMul(DecLong(894, 841775, 10), a)),
                FMul(DecLong(1291, 485548, 9), b))))

\* lines 165-166, t being the trimmed token
NumberOrPercent(t) ==
  IF endsWith(t, <<"%">>) THEN FDivInt(parseFloat(t), 100) ELSE parseFloat(t)

parseNumberOrPercent(token) == NumberOrPercent(trim(token))

\* x / Math.PI, for the operands the inputs of the model produce
DivByPI(x) ==
  CASE IsNaN(x)  -> NaN
    [] IsZero(x) -> Zero

\* lines 177-182, t being the trimmed lower-case token and v parseFloat(t)
AngleOf(t, v) ==
  CASE endsWith(t, <<"d", "e", "g">>)      -> v
    [] endsWith(t, <<"g", "r", "a", "d">>) -> FMul(v, Dec(9, 1))
    [] endsWith(t, <<"r", "a", "d">>)      -> DivByPI(FMul(v, N180))
    [] endsWith(t, <<"t", "u", "r", "n">>) -> FMul(v, N360)
    [] OTHER -> IF IsNaN(v) THEN Zero ELSE v

AngleOfText(t) == AngleOf(t, parseFloat(t))

parseAngle(token) == AngleOfText(toLowerCase(trim(token)))

\* The match of  name \( \s* ([^\s\/]+) \s+ ([^\s\/]+) \s+ ([^\s\/\)]+)
\* (?: \s* \/ \s* [^\)]+ )? \s* \)  at position i: the three captures, or NoMatch
TokensAt(s, i, name) ==
  LET a1 == RunIn(s, i + Len(name) + 1, Spaces)
      a2 == RunNotIn(s, a1, Spaces \cup {"/"})
      b1 == RunIn(s, a2, Spaces)
      b2 == RunNotIn(s, b1, Spaces \cup {"/"})
      c1 == RunIn(s, b2, Spaces)
      c2 == RunNotIn(s, c1, Spaces \cup {"/", ")"})
      d  == RunIn(s, c2, Spaces)
  IN IF /\ MatchesAt(s, i, name)
        /\ Char(s, i + Len(name)) = "("
        /\ a2 > a1 /\ b1 > a2 /\ b2 > b1 /\ c1 > b2 /\ c2 > c1
        /\ \/ Char(s, d) = ")"
           \/ /\ Char(s, d) = "/"
              /\ Char(s, d + 1) \notin {")", ""}
              /\ \E k \in (d + 2)..Len(s) : s[k] = ")"
     THEN <<SubSeq(s, a1, a2 - 1), SubSeq(s, b1, b2 - 1), SubSeq(s, c1, c2 - 1)>>
     ELSE NoMatch

TokensMatch(s, name) ==
  Leftmost(Tuple([i \in 1..Len(s) |-> TokensAt(s, i, name)], Len(s)))

Oklch == <<"o", "k", "l", "c", "h">>
Oklab == <<"o", "k", "l", "a", "b">>

\* lines 197 and 217: if (L > 1) L = L / 100
Rescale(L) == IF FGt(L, One) THEN FDivInt(L, 100) ELSE L

\* The lightness handed to oklabToLinearRgb
Lightness(token) == Rescale(parseNumberOrPercent(token))

\* lines 202 and 219
SrgbOfLinear(lin, bound) == linearToSrgb(lin.r, lin.g, lin.b, bound)

\* lines 199-202, hr being the hue in radians
OklchToSrgb(L, C, hr, bound) ==
  CASE Strict(<<C, hr>>) ->
    SrgbOfLinear(oklabToLinearRgb(L, FMul(C, MathCos(hr)), FMul(C, MathSin(hr))),
                 bound)

\* lines 193-198
OklchOfMatch(m, bound) ==
  IF m = NoMatch THEN Null
  ELSE OklchToSrgb(Lightness(m[1]), parseFloat(m[2]),
                   FDivInt(FMul(parseAngle(m[3]), MathPI), 180), bound)

parseOklchColor(str, bound) == OklchOfMatch(TokensMatch(str, Oklch), bound)

\* lines 213-219
OklabOfMatch(m, bound) ==
  IF m = NoMatch THEN Null
  ELSE SrgbOfLinear(oklabToLinearRgb(Lightness(m[1]), parseFloat(m[2]),
                                     parseFloat(m[3])), bound)

parseOklabColor(str, bound) == OklabOfMatch(TokensMatch(str, Oklab), bound)

\* Which branch of parseColor the trimmed text s takes (lines 92-97)
BranchOf(s) ==
  CASE startsWith(s, <<"#">>) -> "hex"
    [] startsWith(toLowerCase(s), <<"r", "g", "b">>) -> "rgb"
    [] startsWith(toLowerCase(s), <<"h", "s", "l">>) -> "hsl"
    [] startsWith(toLowerCase(s), Oklch) -> "oklch"
    [] startsWith(toLowerCase(s), Oklab) -> "oklab"
    [] OTHER -> "none"

Branch(input) == BranchOf(trim(input))

\* lines 92-97, s being the trimmed text
Dispatch(s, branch, bound) ==
  CASE branch = "hex"   -> parseHexColor(s)
    [] branch = "rgb"   -> parseRgbColor(s)
    [] branch = "hsl"   -> parseHslColor(s)
    [] branch = "oklch" -> parseOklchColor(s, bound)
    [] branch = "oklab" -> parseOklabColor(s, bound)
    [] OTHER -> Null

DispatchText(s, bound) == Dispatch(s, BranchOf(s), bound)

parseColor(input, bound) == DispatchText(trim(input), bound)

\* ---------------------------------------------------------------------------
\* index.js: getFilterForColor.  solver.js is not among the sources: Solver is
\* modelled from its contract (solve returns the best filter string found),
\* and the model also lets its constructor and solve raise, since the facade
\* wraps both in its try block.
\* ---------------------------------------------------------------------------
None     == "none"
Opacity0 == "opacity(0)"
Pending  == "(no result yet)"

Transparent  == <<"t", "r", "a", "n", "s", "p", "a", "r", "e", "n", "t">>
CurrentColor == <<"c", "u", "r", "r", "e", "n", "t", "C", "o", "l", "o", "r">>
Inherit      == <<"i", "n", "h", "e", "r", "i", "t">>

\* Filter strings solve may return (it searches at random)
FilterStrings ==
  { "invert(50%) sepia(20%) saturate(300%) hue-rotate(180deg) brightness(100%) contrast(100%)",
    "invert(0%) sepia(0%) saturate(100%) hue-rotate(0deg) brightness(100%) contrast(100%)" }

Solver(target) == [target |-> target]
solve(solver) == {[filter |-> f] : f \in FilterStrings}

\* A value passed to getFilterForColor: a string, or an object whose
\* conversion to a string raises
Str(t)   == [type |-> "string", text |-> t]
Throwing == [type |-> "object", text |-> <<>>]

\* Lines 12-13: the result for a keyword, Pending for any other text
KeywordResult_swapped(color) ==
  CASE color = Transparent -> None
    [] color = CurrentColor \/ color = Inherit -> Opacity0
    [] OTHER -> Pending

KeywordResult(color) ==
  CASE color = Transparent -> Opacity0
    [] color = CurrentColor \/ color = Inherit -> None
    [] OTHER -> Pending

\* ---------------------------------------------------------------------------
\* State
\* ---------------------------------------------------------------------------
VARIABLES
  pc,        \* position in the call being modelled
  color,     \* fields r, g, b of the Color object
  ret,       \* value returned by the last method call on it
  orig,      \* its fields right after construction
  prev,      \* its fields before the last method call
  trace,     \* the method calls made on it, in order
  input,     \* text passed to parseColor
  rgb,       \* what parseColor returned
  lightness, \* the L that parseOklchColor / parseOklabColor converted
  arg,       \* value passed to getFilterForColor
  text,      \* String(arg).trim()
  result,    \* what getFilterForColor returned
  solverRan, \* whether solve was called
  raisedAt   \* the step of getFilterForColor that raised, if any

colorVars  == <<color, ret, orig, prev, trace>>
parserVars == <<input, rgb, lightness>>
facadeVars == <<arg, text, result, solverRan, raisedAt>>
vars == <<pc, colorVars, parserVars, facadeVars>>

NoColor == [r |-> Zero, g |-> Zero, b |-> Zero]
Unset   == [k |-> "unset", s |-> 0, m |-> <<>>, e |-> 0]

ColorIdle ==
  /\ color = NoColor /\ orig = NoColor /\ prev = NoColor
  /\ ret = NotCalled /\ trace = <<>>
ParserIdle == input = <<>> /\ rgb = Null /\ lightness = Unset
FacadeIdle ==
  /\ arg = Str(<<>>) /\ text = <<>> /\ result = Pending
  /\ solverRan = FALSE /\ raisedAt = "nowhere"

\* ---------------------------------------------------------------------------
\* The Color object under sequences of method calls
\* ---------------------------------------------------------------------------
MaxOps == 2

ConstructorArgs ==
  { <<FromInt(20), FromInt(128), FromInt(255)>>,
    <<FromInt(300), FromInt(0 - 5), FromInt(128)>>,
    <<NaN, NaN, NaN>> }

InvertAmounts     == {Zero, One}
SepiaAmounts      == {Zero, One}
SaturateAmounts   == {One, Huge}
HueRotateAmounts  == {Zero, N180}
BrightnessAmounts == {One, Half}
ContrastAmounts   == {One, Two}
SetArgs           == { <<FromInt(0 - 1), FromInt(256), FromInt(64)>> }
MultiplyArgs      == { <<Zero, One, Zero, Zero, Zero, One, One, Zero, Zero>> }

InitColor ==
  /\ pc = "color"
  /\ \E a \in ConstructorArgs :
       color = Color(a[1], a[2], a[3])
  /\ orig = color
  /\ prev = color
  /\ ret = NotCalled
  /\ trace = <<>>
  /\ ParserIdle /\ FacadeIdle

Call(m, op, value) ==
  /\ Len(trace) < MaxOps
  /\ color' = m.this
  /\ ret' = m.ret
  /\ prev' = color
  /\ trace' = Append(trace, [op |-> op, value |-> value])
  /\ UNCHANGED <<pc, orig, parserVars, facadeVars>>

Set        == \E a \in SetArgs : Call(set(a[1], a[2], a[3]), "set", a)
Multiply   == \E m \in MultiplyArgs : Call(multiply(color, m), "multiply", m)
Invert     == \E v \in InvertAmounts : Call(invert(color, v), "invert", v)
Sepia      == \E v \in SepiaAmounts : Call(sepia(color, v), "sepia", v)
Saturate   == \E v \in SaturateAmounts : Call(saturate(color, v), "saturate", v)
HueRotate  == \E v \in HueRotateAmounts : Call(hueRotate(color, v), "hueRotate", v)
Brightness == \E v \in BrightnessAmounts : Call(brightness(color, v), "brightness", v)
Contrast   == \E v \in ContrastAmounts : Call(contrast(color, v), "contrast", v)

NextColor ==
  \/ Set \/ Multiply \/ Invert \/ Sepia
  \/ Saturate \/ HueRotate \/ Brightness \/ Contrast

SpecColor == InitColor /\ [][NextColor]_vars

\* ---------------------------------------------------------------------------
\* parseColor on one input
\* ---------------------------------------------------------------------------
MaxHexLen == 6

HexAlphabet == {"0", "f", "g", "-"}
HexBodies ==
  UNION { { Tuple(f, n) : f \in [1..n -> HexAlphabet] } : n \in 0..MaxHexLen }
HexInputs ==
  { <<"#">> \o body : body \in HexBodies }
    \cup { <<" ", "#", "F", "0", "a", "\n">>, <<"#", "f", " ", "0", "0", "0", "0">> }

Numeral(n) ==
  IF n < 10 THEN <<HexChars[n + 1]>>
  ELSE IF n < 100 THEN <<HexChars[(n \div 10) + 1], HexChars[(n % 10) + 1]>>
  ELSE <<HexChars[(n \div 100) + 1], HexChars[((n \div 10) % 10) + 1],
         HexChars[(n % 10) + 1]>>

RgbNumbers == {0, 34, 255, 300}
RgbInputs ==
  { <<"r", "g", "b", "(">> \o Numeral(r) \o <<",", " ">> \o Numeral(g)
      \o <<",", " ">> \o Numeral(b) \o <<")">> :
    r \in RgbNumbers, g \in RgbNumbers, b \in RgbNumbers }
  \cup
  { <<"r", "g", "b", "a", "(", "1", ",", "2", ",", "3", ",", "0", ".", "5", ")">>,
      <<"R", "G", "B", "(", "3", "0", "0", " ", ",", " ", " ", "4", ",", "5", ")">>,
      <<"r", "g", "b", "(", " ", "1", ",", "2", ",", "3", ")">>,
      <<"r", "g", "b", "(", "1", ".", "5", ",", "2", ",", "3", ")">>,
      <<"r", "g", "b", "(", "1", ",", "2", ")">>,
      <<"r", "g", "b", "(", "-", "1", ",", "2", ",", "3", ")">>,
      <<"r", "g", "b", "r", "g", "b", "(", "7", ",", "8", ",", "9", ")">>,
      <<" ", "r", "g", "b", "(", "1", ",", "2", ",", "3">> }

HslHues   == {0, 45, 120, 210, 360}
HslSats   == {0, 33, 100, 200}
HslLights == {0, 50, 75, 100}
HslInputs ==
  { <<"h", "s", "l", "(">> \o Numeral(h) \o <<",", " ">> \o Numeral(s)
      \o <<"%", ",", " ">> \o Numeral(l) \o <<"%", ")">> :
    h \in HslHues, s \in HslSats, l \in HslLights }
  \cup
  { <<"h", "s", "l", "a", "(", "1", "2", "0", ",", "1", "0", "0", "%", ",", "5", "0", "%", ",", "0", ".", "3", ")">>,
      <<"H", "S", "L", "(", "2", "1", "0", " ", ",", " ", "3", "3", "%", " ", ",", "7", "5", "%", ")">>,
      <<"h", "s", "l", "(", "0", ",", "0", ",", "5", "0", "%", ")">>,
      <<"h", "s", "l", "(", "0", ",", "0", "%", ",", "5", "0", ")">>,
      <<"h", "s", "l", "(", "4", "5", "d", "e", "g", ",", "1", "%", ",", "1", "%", ")">>,
      <<"h", "s", "l", "(", "4", "0", "0", ",", "5", "0", "%", ",", "1", "5", "0", "%", ")">> }

LightnessTokens ==
  { <<"0", ".", "7">>, <<"7", "0", "%">>, <<"7", "0">>, <<"1", "5", "0">>, <<"-", "5", "0", "%">>, <<"a", "b", "c">> }
ChromaTokens == { <<"0", ".", "1">>, <<"0">> }
HueTokens ==
  { <<"0">>, <<"1", "8", "0">>, <<"9", "0", "d", "e", "g">>, <<"1", "0", "0", "g", "r", "a", "d">>, <<"0", ".", "5", "t", "u", "r", "n">>, <<"0", "r", "a", "d">>, <<"x", "d", "e", "g">>, <<"a", "b", "c">> }
AxisTokens == { <<"0", ".", "1">>, <<"-", "0", ".", "2">>, <<"x">> }

OklchInputs ==
  { Oklch \o <<"(">> \o l \o <<" ">> \o c \o <<" ">> \o h \o <<")">> :
    l \in LightnessTokens, c \in ChromaTokens, h \in HueTokens }
OklabInputs ==
  { Oklab \o <<"(">> \o l \o <<" ">> \o a \o <<" ">> \o b \o <<")">> :
    l \in LightnessTokens, a \in AxisTokens, b \in AxisTokens }
OddInputs ==
  { <<"o", "k", "l", "c", "h", "(", "0", ".", "7", " ", "0", ".", "1", " ", "1", "8", "0", " ", "/", " ", "0", ".", "8", ")">>,
      <<"o", "k", "l", "c", "h", "(", "0", ".", "7", " ", "0", ".", "1", " ", "1", "8", "0", "/", ")">>,
      <<"o", "k", "l", "c", "h", "(", "0", ".", "7", ",", "0", ".", "1", ",", "1", "8", "0", ")">>,
      <<"O", "K", "L", "C", "H", "(", " ", "0", ".", "7", " ", " ", "0", ".", "1", " ", "1", "8", "0", " ", ")">>,
      <<"o", "k", "l", "c", "h", "(", "0", ".", "7", " ", "0", ".", "1", " ", "1", "8", "0">>,
      <<"o", "k", "l", "c", "h", "(", "0", ".", "7", " ", "0", ".", "1", ")">>,
      <<"o", "k", "l", "a", "b", "(", "0", ".", "7", " ", "0", ".", "1", " ", "0", ".", "0", "5", " ", "/", " ", "0", ".", "8", ")">>,
      <<"o", "k", "l", "a", "b", "(", "7", "0", "%", " ", "0", ".", "1", ")">> }
OtherInputs ==
  { <<"r", "e", "d">>,
      <<"n", "o", "t", "-", "a", "-", "c", "o", "l", "o", "r">>,
      <<>>,
      <<"l", "a", "b", "(", "5", "0", " ", "0", " ", "0", ")">>,
      <<"t", "r", "a", "n", "s", "p", "a", "r", "e", "n", "t">> }

ParserInputs ==
  HexInputs \cup RgbInputs \cup HslInputs \cup OklchInputs \cup OklabInputs
    \cup OddInputs \cup OtherInputs

InitParser ==
  /\ pc = "call"
  /\ input \in ParserInputs
  /\ rgb = Null /\ lightness = Unset
  /\ ColorIdle /\ FacadeIdle

Returns(value, L) ==
  /\ pc = "call"
  /\ rgb' = value
  /\ lightness' = L
  /\ pc' = "returned"
  /\ UNCHANGED <<input, colorVars, facadeVars>>

\* The L of a matching oklch() / oklab() text
LightnessOfMatch(m) == IF m = NoMatch THEN Unset ELSE Lightness(m[1])

LightnessOf(str, name) == LightnessOfMatch(TokensMatch(str, name))

\* One action for each way through parseColor (lines 91-97)
ParseHex ==
  /\ Branch(input) = "hex"
  /\ Returns(parseHexColor(trim(input)), Unset)
ParseRgb ==
  /\ Branch(input) = "rgb"
  /\ Returns(parseRgbColor(trim(input)), Unset)
ParseHsl ==
  /\ Branch(input) = "hsl"
  /\ Returns(parseHslColor(trim(input)), Unset)
ParseOklch ==
  /\ Branch(input) = "oklch"
  /\ \E bound \in PowBounds :
       Returns(parseOklchColor(trim(input), bound),
               LightnessOf(trim(input), Oklch))
ParseOklab ==
  /\ Branch(input) = "oklab"
  /\ \E bound \in PowBounds :
       Returns(parseOklabColor(trim(input), bound),
               LightnessOf(trim(input), Oklab))
ParseUnmatched ==
  /\ Branch(input) = "none"
  /\ Returns(Null, Unset)

NextParser ==
  \/ ParseHex \/ ParseRgb \/ ParseHsl
  \/ ParseOklch \/ ParseOklab \/ ParseUnmatched

SpecParser == InitParser /\ [][NextParser]_vars

\* ---------------------------------------------------------------------------
\* getFilterForColor on one argument, step by step
\* ---------------------------------------------------------------------------
FacadeArgs ==
  { Throwing,
    Str(<<"t", "r", "a", "n", "s", "p", "a", "r", "e", "n", "t">>),
    Str(<<"c", "u", "r", "r", "e", "n", "t", "C", "o", "l", "o", "r">>),
    Str(<<"i", "n", "h", "e", "r", "i", "t">>),
    Str(<<" ", "t", "r", "a", "n", "s", "p", "a", "r", "e", "n", "t", " ">>),
    Str(<<"c", "u", "r", "r", "e", "n", "t", "c", "o", "l", "o", "r">>),
    Str(<<"I", "N", "H", "E", "R", "I", "T">>),
    Str(<<"#", "f", "f", "0", "0", "0", "0">>),
    Str(<<"#", "f", "0", "0">>),
    Str(<<"#", "g", "g", "g">>),
    Str(<<"r", "g", "b", "(", "2", "5", "5", ",", " ", "0", ",", " ", "0", ")">>),
    Str(<<"h", "s", "l", "(", "0", ",", " ", "1", "0", "0", "%", ",", " ", "5", "0", "%", ")">>),
    Str(<<"o", "k", "l", "c", "h", "(", "0", ".", "7", " ", "0", ".", "1", " ", "1", "8", "0", ")">>),
    Str(<<"o", "k", "l", "c", "h", "(", "a", "b", "c", " ", "0", ".", "1", " ", "1", "8", "0", ")">>),
    Str(<<"o", "k", "l", "a", "b", "(", "0", ".", "7", " ", "0", ".", "1", " ", "0", ".", "0", "5", ")">>),
    Str(<<"n", "o", "t", "-", "a", "-", "c", "o", "l", "o", "r">>),
    Str(<<"r", "e", "d">>),
    Str(<<"r", "g", "b", "(", "3", "0", "0", ",", " ", "0", ",", " ", "0", ")">>),
    Str(<<"#", "0", "g", "0", "0", "0", "0">>),
    Str(<<"#", "1", "2", "3", "4">>),
    Str(<<>>) }

Init ==
  /\ pc = "start"
  /\ arg \in FacadeArgs
  /\ text = <<>> /\ result = Pending
  /\ solverRan = FALSE /\ raisedAt = "nowhere"
  /\ ColorIdle /\ ParserIdle

Return(value) ==
  /\ result' = value
  /\ pc' = "returned"
  /\ UNCHANGED raisedAt

\* An exception escaping the function: what the call would do without its catch
Catch_rethrow(step) ==
  /\ result' = Pending
  /\ pc' = "threw"
  /\ raisedAt' = step

\* Lines 22-24: whatever was raised inside try, the call returns 'none'
Catch(step) ==
  /\ result' = None
  /\ pc' = "returned"
  /\ raisedAt' = step

\* Line 11
Convert ==
  /\ pc = "start"
  /\ IF arg.type = "string"
       THEN /\ text' = trim(arg.text)
            /\ pc' = "keywords"
            /\ UNCHANGED <<result, raisedAt>>
       ELSE Catch("String") /\ UNCHANGED text
  /\ UNCHANGED <<arg, solverRan, colorVars, parserVars>>

\* Lines 12-13
Keywords ==
  /\ pc = "keywords"
  /\ IF KeywordResult(text) # Pending
       THEN Return(KeywordResult(text))
       ELSE pc' = "parse" /\ UNCHANGED <<result, raisedAt>>
  /\ UNCHANGED <<arg, text, solverRan, colorVars, parserVars>>

\* Lines 15-16
Parse ==
  /\ pc = "parse"
  /\ \E bound \in PowBounds :
       /\ rgb' = parseColor(text, bound)
       /\ IF rgb' = Null
            THEN Return(None)
            ELSE pc' = "construct" /\ UNCHANGED <<result, raisedAt>>
  /\ input' = text
  /\ UNCHANGED <<arg, text, solverRan, lightness, colorVars>>

\* Line 18
Construct ==
  /\ pc = "construct"
  /\ color' = Color(rgb.r, rgb.g, rgb.b)
  /\ orig' = color'
  /\ prev' = color'
  /\ pc' = "newSolver"
  /\ UNCHANGED <<ret, trace, parserVars, facadeVars>>

\* Line 19
NewSolver ==
  /\ pc = "newSolver"
  /\ \/ pc' = "solve" /\ UNCHANGED <<result, raisedAt>>
     \/ Catch("Solver")
  /\ UNCHANGED <<arg, text, solverRan, colorVars, parserVars>>

\* Lines 20-21
Solve ==
  /\ pc = "solve"
  /\ solverRan' = TRUE
  /\ \/ \E r \in solve(Solver(color)) : Return(r.filter)
     \/ Catch("solve")
  /\ UNCHANGED <<arg, text, colorVars, parserVars>>

Next == Convert \/ Keywords \/ Parse \/ Construct \/ NewSolver \/ Solve

Spec == Init /\ [][Next]_vars

\* ---------------------------------------------------------------------------
\* Properties of the Color object
\* ---------------------------------------------------------------------------
LastOp == trace[Len(trace)]
Called == trace # <<>>

InRange(c) == FLe(Zero, c) /\ FLe(c, N255)
InRangeColor(c) == InRange(c.r) /\ InRange(c.g) /\ InRange(c.b)
IsChannelInt(c) == SmallInt(c) >= 0 /\ SmallInt(c) <= 255
IntColor(c) == IsChannelInt(c.r) /\ IsChannelInt(c.g) /\ IsChannelInt(c.b)

InvertFull == [op |-> "invert", value |-> One]
MatrixNeutral ==
  { [op |-> "sepia", value |-> Zero], [op |-> "saturate", value |-> One],
    [op |-> "hueRotate", value |-> Zero], [op |-> "brightness", value |-> One] }
Neutral ==
  MatrixNeutral \cup
  { [op |-> "invert", value |-> Zero], [op |-> "contrast", value |-> One] }

Complement(c) == FromInt(255 - SmallInt(c))

\* C6 (as stated): in every state of a Color object, whatever was passed to
\* the constructor and whichever calls with finite amounts were made, each of
\* r, g, b lies in [0,255].
C6_ChannelsInRange == InRangeColor(color)

\* C7 (as stated): every call of a filter operation returns the colour object
\* itself, so that the next operation can be applied to the returned value.
C7_ReturnsModel == Called => ret = This

\* C7 (amended): every call of an operation returns undefined, never the
\* object, and changes the fields of the receiver in place: after
\* brightness(0.5) a finite positive r of the receiver has become smaller.
C7_MutatesReturnsUndefined ==
  Called =>
    /\ ret = Undefined
    /\ (LastOp = [op |-> "brightness", value |-> Half] /\ InRange(prev.r)
          /\ ~IsZero(prev.r)) => FLt(color.r, prev.r)

C7_Witness ==
  /\ Called
  /\ LastOp = [op |-> "brightness", value |-> Half]
  /\ InRange(prev.r) /\ ~IsZero(prev.r)
  /\ ret = Undefined
  /\ color # prev

\* C10 (as stated): a neutral operation leaves every in-range colour
\* unchanged, invert(1) maps each channel c to exactly 255 - c, and invert(1)
\* applied twice gives back exactly the colour it started from.
C10_NeutralAndInvertExact ==
  /\ (Called /\ LastOp \in Neutral /\ InRangeColor(prev)) => color = prev
  /\ (Called /\ LastOp = InvertFull /\ InRangeColor(prev)) =>
        /\ color.r = FSub(N255, prev.r)
        /\ color.g = FSub(N255, prev.g)
        /\ color.b = FSub(N255, prev.b)
  /\ (trace = <<InvertFull, InvertFull>> /\ InRangeColor(orig)) => color = orig

\* C10 (amended): a neutral operation leaves every colour with integer
\* channels unchanged (sepia(0), saturate(1), hueRotate(0) and brightness(1)
\* every in-range colour), so a sequence of neutral operations on such a
\* colour is the identity; invert(1) maps an integer channel c to a number
\* that rounds to 255 - c, and applied twice to a number that rounds to c.
C10_NeutralAndInvertRounded ==
  /\ (Called /\ LastOp \in Neutral /\ IntColor(prev)) => color = prev
  /\ (Called /\ LastOp \in MatrixNeutral /\ InRangeColor(prev)) => color = prev
  /\ (IntColor(orig) /\ \A i \in 1..Len(trace) : trace[i] \in Neutral) =>
        color = orig
  /\ (Called /\ LastOp = InvertFull /\ IntColor(prev)) =>
        /\ MathRound(color.r) = Complement(prev.r)
        /\ MathRound(color.g) = Complement(prev.g)
        /\ MathRound(color.b) = Complement(prev.b)
  /\ (trace = <<InvertFull, InvertFull>> /\ IntColor(orig)) =>
        /\ MathRound(color.r) = orig.r
        /\ MathRound(color.g) = orig.g
        /\ MathRound(color.b) = orig.b

C10_Witness ==
  /\ trace = <<InvertFull, InvertFull>>
  /\ IntColor(orig)
  /\ color # orig
  /\ MathRound(color.r) = orig.r

\* ---------------------------------------------------------------------------
\* Properties of parseColor
\* ---------------------------------------------------------------------------
Returned == pc = "returned"

HasNaN(c) == IsNaN(c.r) \/ IsNaN(c.g) \/ IsNaN(c.b)

\* C3: parseColor returns null for every input with an unmatched prefix, and
\* whatever it returns for the others, it never returns a triple that has a
\* NaN channel (a component that fails to parse makes the result null).
C3_NaNIsInvalid ==
  Returned =>
    /\ Branch(input) = "none" => rgb = Null
    /\ rgb # Null => ~HasNaN(rgb)

\* C4: every triple parseColor returns has three integer channels in 0..255,
\* whichever syntax the input uses and whatever component values it carries.
C4_ChannelsAreBytes == (Returned /\ rgb # Null) => IntColor(rgb)

\* The text after "#" of a hex input
HexTextOf(str) == SubSeq(trim(str), 2, Len(trim(str)))
AllHexDigits(s) == \A i \in 1..Len(s) : s[i] \in HexDigitSet

\* C5: for a "#" input, parseColor returns a triple exactly when the text
\* after "#" is 3 or 6 characters long and every character of it is a
\* hexadecimal digit; every other "#" input is invalid.
C5_OnlyHexDigits ==
  (Returned /\ Branch(input) = "hex") =>
    (rgb # Null <=>
       (Len(HexTextOf(input)) \in {3, 6} /\ AllHexDigits(HexTextOf(input))))

\* C8: the lightness an oklch() or oklab() input is converted with is a
\* fraction in [0,1], for percentage tokens and for numeric tokens above 1
\* alike.  (A token that is no number is the case of C3 and is left out here.)
C8_LightnessIsFraction ==
  (Returned /\ lightness # Unset /\ ~IsNaN(lightness)) =>
    (FLe(Zero, lightness) /\ FLe(lightness, One))

\* The reference conversion of C9 in exact arithmetic, for integer H, S, L
\* and n in {0, 8, 4}.  With K = 30 * k = (30 * n + H) mod 360 and
\* c = 30 * clamp(min(k - 3, 9 - k, 1), -1, 1), the channel
\* round(255 * (l - a * clamp(..))) is floor(255 * (3000 L - S m c) / 300000 + 1/2),
\* where m = min(L, 100 - L).
RefClamp30(K) == Max2(0 - 30, Min2(Min2(K - 90, 270 - K), 30))
RefChannel(n, H, S, L) ==
  (2 * 255 * (3000 * L - S * Min2(L, 100 - L) * RefClamp30((30 * n + H) % 360))
     + 300000) \div 600000
RefHsl(H, S, L) ==
  Rgb(FromInt(RefChannel(0, H, S, L)), FromInt(RefChannel(8, H, S, L)),
      FromInt(RefChannel(4, H, S, L)))

\* The captures of an hsl() input as integers, <<>> when it does not match
HslCaptures(str) ==
  LET m == TripleMatch(trim(str), <<"h", "s", "l">>, <<"%">>)
  IN  IF m = NoMatch THEN <<>>
      ELSE <<DigitsValue(m[1], 10), DigitsValue(m[2], 10), DigitsValue(m[3], 10)>>

InHslRange(c) == c # <<>> /\ c[1] <= 360 /\ c[2] <= 100 /\ c[3] <= 100

\* C9: for every hsl() input with integer hue H in 0..360 and percentages S, L
\* in 0..100, parseColor returns the triple of the reference algorithm:
\* channel n = round(255 * (l - a * clamp(min(k - 3, 9 - k, 1), -1, 1))) with
\* k = (n + 12 h) mod 12 and a = s * min(l, 1 - l), for n = 0, 8, 4.
C9_HslMatchesReference ==
  (Returned /\ Branch(input) = "hsl" /\ InHslRange(HslCaptures(input))) =>
    rgb = RefHsl(HslCaptures(input)[1], HslCaptures(input)[2],
                 HslCaptures(input)[3])

\* ---------------------------------------------------------------------------
\* Properties of getFilterForColor
\* ---------------------------------------------------------------------------
Raised == raisedAt # "nowhere"

\* C1: no exception escapes getFilterForColor; whenever a step inside it
\* raised, the call has returned exactly "none"; and whatever it returns is
\* one of the strings "none", "opacity(0)" or a filter string of the solver.
C1_NeverRaises ==
  /\ pc # "threw"
  /\ Raised => (Returned /\ result = None)
  /\ Returned => result \in ({None, Opacity0} \cup FilterStrings)

C1_Witness == Returned /\ raisedAt = "solve" /\ solverRan /\ result = None

\* C2: "transparent" gives "opacity(0)", "currentColor" and "inherit" give
\* "none", every other text the parser reports invalid gives "none", all of
\* them without running the solver; and a filter string of the solver is
\* returned only when the parser produced a triple.
C2_KeywordsAndInvalid ==
  Returned =>
    /\ text = Transparent => (result = Opacity0 /\ ~solverRan)
    /\ text \in {CurrentColor, Inherit} => (result = None /\ ~solverRan)
    /\ (~Raised /\ KeywordResult(text) = Pending /\ rgb = Null) =>
         (result = None /\ ~solverRan)
    /\ result \in FilterStrings => (solverRan /\ input = text /\ rgb # Null)

C2_Witness ==
  /\ Returned /\ ~Raised
  /\ text \notin {<<>>, Transparent, CurrentColor, Inherit}
  /\ input = text /\ rgb = Null
  /\ result = None /\ ~solverRan

=============================================================================
